---- MODULE Spec2Model ----
(***************************************************************************)
(* A model of d3.chart.dependencyWheel (src/js/d3.dependencyWheel.js).     *)
(*                                                                         *)
(* The chart is a closure built by d3.chart.dependencyWheel(options).      *)
(* Calling it on a target element (chart(selection)) draws one group label *)
(* per node and one path per chord of d3.layout.chord, and attaches the    *)
(* handlers fadeOut / fadeIn / getChosenNode to every label and chord.     *)
(*                                                                         *)
(* Node indices, rows and columns are 0-based as in the source.  Lists     *)
(* handed to the selection callback are sequences.                         *)
(*                                                                         *)
(* Angles: d3.layout.chord computes k = (2*pi - padding*n) / total and     *)
(* every angle as a sum of weight*k and padding terms.  The model stores   *)
(* angle a as the integer a * (2*total) / AngleUnit, where AngleUnit is    *)
(* 0.02 rad, so that halving is exact; 2*pi is Tau angle units.  A value   *)
(* in degrees is stored over the same denominator (see Degrees).  The      *)
(* number NaN, which the layout produces for a matrix of total weight 0,   *)
(* is a value of its own.  Sub-arc angles of the chords are not modelled.  *)
(***************************************************************************)
EXTENDS Integers, Sequences, FiniteSets

VARIABLES
    padding,        \* var padding (line 39), in angle units
    onNodeChosed,   \* whether options.onNodeChosed is a function
    rendered,       \* whether the target element holds the svg element
    svgDatum,       \* the data bound to the svg element (line 61)
    matrix,         \* var matrix of the call that drew the elements
    packageNames,   \* var packageNames of that call
    packages,       \* var packages of that call
    groups,         \* data of the node_label elements (chord.groups)
    chords,         \* data of the chord path elements (chord.chords)
    rotation,       \* var rotation of that call, in degrees
    labelOpacity,   \* opacity of each node_label element
    chordOpacity,   \* opacity of each chord path element
    chosen,         \* arguments of the last options.onNodeChosed call
    labelTransform, \* rotate() angle of each node_label element
    chordTransform, \* rotate() angle of each chord path element
    event,          \* the last call handled
    before,         \* the call handled before it
    error           \* the exception the last chart call ended with

vars == <<padding, onNodeChosed, rendered, svgDatum, matrix, packageNames,
          packages, groups, chords, rotation, labelOpacity, chordOpacity,
          labelTransform, chordTransform, chosen, event, before, error>>

----------------------------------------------------------------------------
(* Bounds of the model. *)

MaxNodes == 3

MaxWeight == 1

(* Program constants. *)

\* 2*pi in angle units of 0.02 rad (314.159..., rounded down)
Tau == 314

\* options.padding || 0.02
DefaultPadding == 1

\* fade(0.1), in tenths
FadeOutOpacity == 1

\* fade(1) and .style("opacity", 1), in tenths
FadeInOpacity == 10

----------------------------------------------------------------------------
(* JavaScript values. *)

Undefined == [type |-> "undefined"]

JsFalse == [type |-> "boolean", bool |-> FALSE]

JsString(s) == [type |-> "string", str |-> s]

JsObject(i, n) == [type |-> "object", id |-> i, name |-> n]

\* ToBoolean of a value of the kinds above
Truthy(v) ==
    CASE v.type = "undefined" -> FALSE
      [] v.type = "boolean"   -> v.bool
      [] v.type = "string"    -> v.str # ""
      [] OTHER                -> TRUE

\* Array.prototype.filter(filterTrue)
FilterTrue(s) == SelectSeq(s, Truthy)

NaN == [nan |-> TRUE, num |-> 0]

Num(x) == [nan |-> FALSE, num |-> x]

JsAdd(a, b) == IF a.nan \/ b.nan THEN NaN ELSE Num(a.num + b.num)

JsSub(a, b) == IF a.nan \/ b.nan THEN NaN ELSE Num(a.num - b.num)

JsNeg(a) == IF a.nan THEN NaN ELSE Num(0 - a.num)

\* a / 2; every stored angle is an even integer
JsHalf(a) == IF a.nan THEN NaN ELSE Num(a.num \div 2)

\* a * (180 / Math.PI): with 2*pi = Tau angle units, one angle unit is
\* 360/Tau degrees; degrees are stored as multiples of 1/Tau degree
Degrees(a) == IF a.nan THEN NaN ELSE Num(a.num * 360)

Idx(n) == 0 .. (n - 1)

RECURSIVE SumTo(_, _)
SumTo(f, n) == IF n = 0 THEN 0 ELSE f[n - 1] + SumTo(f, n - 1)

----------------------------------------------------------------------------
(* d3.layout.chord().padding(padding).sortSubgroups(d3.descending), as     *)
(* documented for d3 version 3: chord.groups() returns one group per row   *)
(* of the matrix, in row order, group 0 starting at angle 0; and           *)
(* chord.chords() returns one chord per pair i <= j of nodes with a        *)
(* non-zero flow in either direction ("each chord represents the combined  *)
(* bidirectional flow between two nodes i and j, where i may be equal to   *)
(* j"), the source being the end with the larger value.                    *)

Size(m) == Cardinality(DOMAIN m)

RowSum(m, i) == SumTo(m[i], Size(m))

\* the sum of the rows before row i
RECURSIVE SumBefore(_, _)
SumBefore(m, i) == IF i = 0 THEN 0 ELSE RowSum(m, i - 1) + SumBefore(m, i - 1)

Total(m) == SumBefore(m, Size(m))

\* x0 of group i: the weights before it times k, plus i paddings
GroupStart(m, pad, i) ==
    IF Total(m) = 0
    THEN IF i = 0 THEN Num(0) ELSE NaN
    ELSE Num(2 * (SumBefore(m, i) * (Tau - pad * Size(m)) + i * pad * Total(m)))

\* x after the sub-arcs of group i
GroupEnd(m, pad, i) ==
    IF Total(m) = 0
    THEN NaN
    ELSE Num(2 * (SumBefore(m, i + 1) * (Tau - pad * Size(m)) + i * pad * Total(m)))

ChordGroups(m, pad) ==
    [i \in Idx(Size(m)) |->
        [index      |-> i,
         startAngle |-> GroupStart(m, pad, i),
         endAngle   |-> GroupEnd(m, pad, i)]]

Subgroup(m, i, j) == [index |-> i, subindex |-> j, value |-> m[i][j]]

\* the pairs (i, j) in the order of the two nested loops over i and j
PairSeq(n) == [k \in 1 .. (n * n) |-> <<(k - 1) \div n, (k - 1) % n>>]

\* the inner loop starting at i + 1
HasChordOffDiagonal(m, p) ==
    /\ p[1] < p[2]
    /\ (m[p[1]][p[2]] # 0 \/ m[p[2]][p[1]] # 0)

\* source.value || target.value, for j from i to n - 1
HasChord(m, p) ==
    /\ p[1] <= p[2]
    /\ (m[p[1]][p[2]] # 0 \/ m[p[2]][p[1]] # 0)

\* source.value < target.value ? {source: target, target: source} : {...}
ChordOf(m, p) ==
    IF m[p[1]][p[2]] < m[p[2]][p[1]]
    THEN [source |-> Subgroup(m, p[2], p[1]), target |-> Subgroup(m, p[1], p[2])]
    ELSE [source |-> Subgroup(m, p[1], p[2]), target |-> Subgroup(m, p[2], p[1])]

ChordChords(m) ==
    LET kept == SelectSeq(PairSeq(Size(m)), LAMBDA p : HasChord(m, p))
    IN  [c \in 1 .. Len(kept) |-> ChordOf(m, kept[c])]

----------------------------------------------------------------------------
(* The inputs of a chart call: data = {packageNames, matrix, packages}.    *)

NoPackages == [defined |-> FALSE, items |-> <<>>]

Matrices(n) == [Idx(n) -> [Idx(n) -> 0 .. MaxWeight]]

RegularName(i) == IF i = 0 THEN "Main" ELSE IF i = 1 THEN "A" ELSE IF i = 2 THEN "B" ELSE "C"

RegularNames(n) == [i \in Idx(n) |-> RegularName(i)]

\* name lists in which any node may have the empty name
NameLists(n) == { [i \in Idx(n) |-> IF i \in e THEN "" ELSE RegularName(i)] : e \in SUBSET Idx(n) }

PackageList(n) == [i \in Idx(n) |-> JsObject(i, RegularName(i))]

NamedData(m, names) == [matrix |-> m, packageNames |-> names, packages |-> NoPackages]

PackageData(m) ==
    [matrix |-> m, packageNames |-> <<>>,
     packages |-> [defined |-> TRUE, items |-> PackageList(Size(m))]]

NoData == NamedData(<<>>, <<>>)

----------------------------------------------------------------------------
(* d3.chart.dependencyWheel(options): the state before the first call.    *)

\* a call handled: a chart call, a setter call, or a DOM event on a label or
\* a chord, with the index i its handler works with
Handled(type, target, i) == [type |-> type, target |-> target, index |-> i]

NoEvent == Handled("none", "none", 0)

Construct(pad, callback) ==
    /\ padding = (IF pad = 0 THEN DefaultPadding ELSE pad)
    /\ onNodeChosed = callback
    /\ rendered = FALSE
    /\ svgDatum = NoData
    /\ matrix = <<>>
    /\ packageNames = <<>>
    /\ packages = NoPackages
    /\ groups = <<>>
    /\ chords = <<>>
    /\ rotation = NaN
    /\ labelOpacity = <<>>
    /\ chordOpacity = <<>>
    /\ labelTransform = <<>>
    /\ chordTransform = <<>>
    /\ chosen = [called |-> FALSE, self |-> Undefined, deps |-> <<>>, requires |-> <<>>]
    /\ event = NoEvent
    /\ before = NoEvent
    /\ error = "none"

\* packages.map(function(pkg) { return pkg.name; })
NamesOf(data) ==
    IF data.packages.defined
    THEN [i \in DOMAIN data.packages.items |-> data.packages.items[i].name]
    ELSE data.packageNames

\* the width of the root group, not half of it
RotationFullWidth(rootGroup) ==
    Degrees(JsNeg(JsSub(rootGroup.endAngle, rootGroup.startAngle)))

\* - (rootGroup.endAngle - rootGroup.startAngle) / 2 * (180 / Math.PI)
Rotation(rootGroup) ==
    Degrees(JsNeg(JsHalf(JsSub(rootGroup.endAngle, rootGroup.startAngle))))

(* chart(selection), for one target element and its data.                  *)
(* selectAll("svg").data([data]) binds the data to the svg element; the    *)
(* labels and the chords are appended under svg.enter(), which is empty    *)
(* when the target already holds an svg element.  chord.groups()[0] is     *)
(* undefined for an empty matrix, and line 142 then throws a TypeError.    *)
Chart(data) ==
    LET m == data.matrix
        g == ChordGroups(m, padding)
        c == ChordChords(m)
        drawn == ~rendered /\ Size(m) > 0
    IN  /\ svgDatum' = data
        /\ rendered' = TRUE
        /\ error' = IF Size(m) = 0 THEN "TypeError" ELSE "none"
        /\ event' = Handled("chart", "svg", 0)
        /\ before' = event
        /\ IF drawn
           THEN /\ matrix' = m
                /\ packageNames' = NamesOf(data)
                /\ packages' = data.packages
                /\ groups' = g
                /\ chords' = c
                /\ rotation' = Rotation(g[0])
                /\ labelOpacity' = [i \in DOMAIN g |-> FadeInOpacity]
                /\ chordOpacity' = [i \in DOMAIN c |-> FadeInOpacity]
                /\ labelTransform' = [i \in DOMAIN g |-> Rotation(g[0])]
                /\ chordTransform' = [i \in DOMAIN c |-> Rotation(g[0])]
           ELSE UNCHANGED <<matrix, packageNames, packages, groups, chords,
                            rotation, labelOpacity, chordOpacity,
                            labelTransform, chordTransform>>
        /\ UNCHANGED <<padding, onNodeChosed, chosen>>

----------------------------------------------------------------------------
(* fade(opacity), the handler of mouseover (fadeOut) and mouseout (fadeIn) *)
(* on labels and chords.  The transition it starts ends with the opacity   *)
(* set; the model sets it at once.                                         *)

\* the array groups without the sources of the chords that end at i
FadeGroupsTargetsOnly(i) ==
    { chords[c].target.index : c \in { d \in DOMAIN chords : chords[d].source.index = i } }
    \cup {i}

\* the array groups of the handler: the other end of every chord of i, and i
FadeGroups(i) ==
    { chords[c].target.index : c \in { d \in DOMAIN chords : chords[d].source.index = i } }
    \cup { chords[c].source.index : c \in { d \in DOMAIN chords : chords[d].target.index = i } }
    \cup {i}

\* the filter testing the source alone
FadedChordBySource(c, i) == chords[c].source.index # i

\* chords.filter(...): the chords the handler sets the opacity of
FadedChord(c, i) == chords[c].source.index # i /\ chords[c].target.index # i

\* the filter keeping the label of i alone
FadedLabelButSelf(g, i) == groups[g].index # i

\* node_label.filter(...): the labels the handler sets the opacity of
FadedLabel(g, i) == groups[g].index \notin FadeGroups(i)

Fade(opacity, i) ==
    /\ chordOpacity' = [c \in DOMAIN chords |->
                          IF FadedChord(c, i) THEN opacity ELSE chordOpacity[c]]
    /\ labelOpacity' = [g \in DOMAIN groups |->
                          IF FadedLabel(g, i) THEN opacity ELSE labelOpacity[g]]

\* i = g.source ? g.source.index : i, for the chord element c
ChordIndex(c) == chords[c].source.index

HoverFrame == <<padding, onNodeChosed, rendered, svgDatum, matrix, packageNames,
                packages, groups, chords, rotation, labelTransform, chordTransform,
                chosen, error>>

\* node_label.on("mouseover", fadeOut)
MouseoverLabel(i) ==
    /\ i \in DOMAIN groups
    /\ Fade(FadeOutOpacity, i)
    /\ event' = Handled("mouseover", "label", i)
    /\ before' = event
    /\ UNCHANGED HoverFrame

\* node_label.on("mouseout", fadeIn)
MouseoutLabel(i) ==
    /\ i \in DOMAIN groups
    /\ Fade(FadeInOpacity, i)
    /\ event' = Handled("mouseout", "label", i)
    /\ before' = event
    /\ UNCHANGED HoverFrame

\* chords.on('mouseover', fadeOut)
MouseoverChord(c) ==
    /\ c \in DOMAIN chords
    /\ Fade(FadeOutOpacity, ChordIndex(c))
    /\ event' = Handled("mouseover", "chord", ChordIndex(c))
    /\ before' = event
    /\ UNCHANGED HoverFrame

\* chords.on('mouseout', fadeIn)
MouseoutChord(c) ==
    /\ c \in DOMAIN chords
    /\ Fade(FadeInOpacity, ChordIndex(c))
    /\ event' = Handled("mouseout", "chord", ChordIndex(c))
    /\ before' = event
    /\ UNCHANGED HoverFrame

----------------------------------------------------------------------------
(* getChosenNode, the click handler of labels and chords when              *)
(* options.onNodeChosed is given.                                          *)

\* packages ? packages[idx] : packageNames[idx]
NodeOf(idx) ==
    IF packages.defined THEN packages.items[idx] ELSE JsString(packageNames[idx])

\* the map over column idx instead of row idx
DepsMapTransposed(idx) ==
    [c \in 1 .. Size(matrix) |->
        IF matrix[c - 1][idx] # 0 THEN NodeOf(c - 1) ELSE Undefined]

\* matrix[idx].map(function(v, idx) { if (v) { return ...; } })
DepsMap(idx) ==
    [c \in 1 .. Size(matrix) |->
        IF matrix[idx][c - 1] # 0 THEN NodeOf(c - 1) ELSE Undefined]

\* matrix.map(function(arr, i) { return arr[idx] != 0 && (packages ?
\*   packages[idx] : packageNames[i]); })
RequiresMap(idx) ==
    [r \in 1 .. Size(matrix) |->
        IF matrix[r - 1][idx] # 0
        THEN IF packages.defined THEN packages.items[idx]
                                 ELSE JsString(packageNames[r - 1])
        ELSE JsFalse]

GetChosenNode(target, idx) ==
    /\ chosen' = [called   |-> TRUE,
                  self     |-> NodeOf(idx),
                  deps     |-> FilterTrue(DepsMap(idx)),
                  requires |-> FilterTrue(RequiresMap(idx))]
    /\ event' = Handled("click", target, idx)
    /\ before' = event
    /\ UNCHANGED <<padding, onNodeChosed, rendered, svgDatum, matrix, packageNames,
                   packages, groups, chords, rotation, labelOpacity, chordOpacity,
                   labelTransform, chordTransform, error>>

\* node_label.on("click", getChosenNode)
ClickLabel(i) ==
    /\ onNodeChosed
    /\ i \in DOMAIN groups
    /\ GetChosenNode("label", i)

\* chords.on('click', getChosenNode)
ClickChord(c) ==
    /\ onNodeChosed
    /\ c \in DOMAIN chords
    /\ GetChosenNode("chord", ChordIndex(c))

----------------------------------------------------------------------------
(* chart.padding(value) with an argument                                   *)

ChartPadding(value) ==
    /\ padding' = value
    /\ event' = Handled("padding", "chart", 0)
    /\ before' = event
    /\ UNCHANGED <<onNodeChosed, rendered, svgDatum, matrix, packageNames, packages,
                   groups, chords, rotation, labelOpacity, chordOpacity,
                   labelTransform, chordTransform, chosen, error>>

----------------------------------------------------------------------------
(* Inputs.                                                                 *)

\* options.padding: absent (0), 2.1 rad, 3.2 rad
PaddingOptions == {0, 105, 160}

FromSeq(s) == [i \in Idx(Len(s)) |-> s[i + 1]]

MatrixOf(rows) == [i \in Idx(Len(rows)) |-> FromSeq(rows[i + 1])]

\* the data of the usage comment, lines 19-24
UsageMatrix == MatrixOf(<< <<0, 1, 1>>, <<0, 0, 1>>, <<0, 0, 0>> >>)

MutualMatrix == MatrixOf(<< <<1, 1>>, <<1, 0>> >>)

Samples ==
    { NamedData(UsageMatrix, RegularNames(3)),
      PackageData(UsageMatrix),
      NamedData(MutualMatrix, RegularNames(2)),
      PackageData(MatrixOf(<< <<0>> >>)),
      NoData }

AllMatrices == UNION { Matrices(n) : n \in 0 .. MaxNodes }

----------------------------------------------------------------------------
(* The chart with every operation, called on sample data.                  *)

Init == \E pad \in PaddingOptions, callback \in BOOLEAN : Construct(pad, callback)

Call == \E data \in Samples : Chart(data)

SetPadding == \E value \in PaddingOptions : ChartPadding(value)

OverLabel == \E i \in Idx(MaxNodes) : MouseoverLabel(i)

OutLabel == \E i \in Idx(MaxNodes) : MouseoutLabel(i)

OverChord == \E c \in DOMAIN chords : MouseoverChord(c)

OutChord == \E c \in DOMAIN chords : MouseoutChord(c)

OnLabel == \E i \in Idx(MaxNodes) : ClickLabel(i)

OnChord == \E c \in DOMAIN chords : ClickChord(c)

Next ==
    \/ Call
    \/ SetPadding
    \/ OverLabel
    \/ OutLabel
    \/ OverChord
    \/ OutChord
    \/ OnLabel
    \/ OnChord

Spec == Init /\ [][Next]_vars

----------------------------------------------------------------------------
(* The layout of the first call, for every matrix and padding.             *)

InitLayout == \E pad \in PaddingOptions : Construct(pad, FALSE)

FirstCall ==
    /\ ~rendered
    /\ \E m \in AllMatrices : Chart(NamedData(m, RegularNames(Size(m))))

NextLayout ==
    \/ FirstCall
    \/ SetPadding

SpecLayout == InitLayout /\ [][NextLayout]_vars

----------------------------------------------------------------------------
(* Hovering over the chart of the first call, for every matrix.            *)

InitFade == Construct(0, FALSE)

NextFade ==
    \/ FirstCall
    \/ OverLabel
    \/ OutLabel
    \/ OverChord
    \/ OutChord

SpecFade == InitFade /\ [][NextFade]_vars

----------------------------------------------------------------------------
(* Clicking on the chart of the first call, for every matrix, with names   *)
(* or with packages.                                                       *)

InitChoose == \E callback \in BOOLEAN : Construct(0, callback)

FirstCallNames ==
    /\ ~rendered
    /\ \E m \in AllMatrices : \E names \in NameLists(Size(m)) : Chart(NamedData(m, names))

FirstCallPackages ==
    /\ ~rendered
    /\ \E m \in AllMatrices : Chart(PackageData(m))

NextChoose ==
    \/ FirstCallPackages
    \/ FirstCallNames
    \/ OnLabel
    \/ OnChord

SpecChoose == InitChoose /\ [][NextChoose]_vars

----------------------------------------------------------------------------
(* The selection callback (SpecChoose).                                    *)

\* the node indices 0 .. n-1 in increasing order
IndexSeq == [k \in 1 .. Size(matrix) |-> k - 1]

\* node r as the callback is to receive it: nodes[r] when a nodes array was
\* supplied, its display name otherwise
Entry(r) == IF packages.defined THEN packages.items[r] ELSE JsString(packageNames[r])

\* the nodes r with matrix[r][i] non-zero, in increasing row order
DependentsOf(i) ==
    LET rows == SelectSeq(IndexSeq, LAMBDA r : matrix[r][i] # 0)
    IN  [k \in 1 .. Len(rows) |-> Entry(rows[k])]

\* the nodes c with matrix[i][c] non-zero, in increasing column order
DependenciesOf(i) ==
    LET cols == SelectSeq(IndexSeq, LAMBDA c : matrix[i][c] # 0)
    IN  [k \in 1 .. Len(cols) |-> Entry(cols[k])]

Range(s) == { s[k] : k \in DOMAIN s }

Clicked == event.type = "click"

\* C1: after a click that selects node i, the third argument of the callback
\* (dependents) is the list, in increasing row order, of exactly the nodes r
\* with matrix[r][i] non-zero, each given as nodes[r] when a nodes array was
\* supplied and as its display name otherwise.
C1_DependentsList == Clicked => chosen.requires = DependentsOf(event.index)

\* C2: after a click that selects node i, the second argument of the callback
\* (dependencies) is the list, in increasing column order, of exactly the
\* nodes c with matrix[i][c] non-zero (object or display name); a row of zeros
\* gives the empty list.
C2_DependenciesList == Clicked => chosen.deps = DependenciesOf(event.index)

\* the nodes c with matrix[i][c] non-zero whose entry is truthy, in increasing
\* column order
TruthyDependenciesOf(i) ==
    LET cols == SelectSeq(IndexSeq, LAMBDA c : matrix[i][c] # 0 /\ Truthy(Entry(c)))
    IN  [k \in 1 .. Len(cols) |-> Entry(cols[k])]

\* C2, amended: after a click that selects node i, the second argument of the
\* callback is the list, in increasing column order, of exactly the nodes c
\* with matrix[i][c] non-zero whose entry is truthy: every associated object
\* and every non-empty display name.  A node whose display name is the empty
\* string is left out; a row of zeros gives the empty list.
C2_TruthyDependenciesList ==
    Clicked => chosen.deps = TruthyDependenciesOf(event.index)

\* the usage example: selecting Main reports A and B, and no placeholder
C2_Witness ==
    /\ Clicked
    /\ matrix = UsageMatrix
    /\ packageNames = RegularNames(3)
    /\ event.index = 0
    /\ chosen.deps = <<JsString("A"), JsString("B")>>

\* C3: after a click that selects node i, neither the dependencies list nor
\* the dependents list of the callback contains node i itself, whatever the
\* matrix, one with matrix[i][i] > 0 included.
C3_NoSelfReference ==
    Clicked =>
        /\ Entry(event.index) \notin Range(chosen.deps)
        /\ Entry(event.index) \notin Range(chosen.requires)

----------------------------------------------------------------------------
(* The opacity states (SpecFade).                                          *)

Drawn == DOMAIN groups # {}

\* every chord and every group label at opacity 1
Neutral ==
    /\ \A c \in DOMAIN chords : chordOpacity[c] = FadeInOpacity
    /\ \A g \in DOMAIN groups : labelOpacity[g] = FadeInOpacity

\* group g is node k or a neighbour of node k in the matrix
Related(g, k) == g = k \/ matrix[k][g] > 0 \/ matrix[g][k] > 0

\* chord c has node k at one of its ends
Touches(c, k) == chords[c].source.index = k \/ chords[c].target.index = k

\* exactly k, k's neighbours and the chords touching k at opacity 1, everything
\* else at 0.1
FocusedOn(k) ==
    /\ \A c \in DOMAIN chords :
          chordOpacity[c] = IF Touches(c, k) THEN FadeInOpacity ELSE FadeOutOpacity
    /\ \A g \in DOMAIN groups :
          labelOpacity[g] = IF Related(groups[g].index, k) THEN FadeInOpacity
                                                           ELSE FadeOutOpacity

\* nothing that belongs to node k is dimmed
UndimmedAt(k) ==
    /\ \A c \in DOMAIN chords : Touches(c, k) => chordOpacity[c] = FadeInOpacity
    /\ \A g \in DOMAIN groups :
          Related(groups[g].index, k) => labelOpacity[g] = FadeInOpacity

\* C4: the state right after a fadeIn(j) event has every chord and every group
\* label at opacity 1, for every j and whatever came before it.
C4_FadeInRestoresAll == event.type = "mouseout" => Neutral

\* C4, amended: fadeIn(j) restores the chords that do not touch j and the
\* labels of the nodes unrelated to j, and nothing else.  The state right after
\* fadeIn(j) has every chord and every group label at opacity 1 exactly when
\* nothing that belongs to j was dimmed before it; this is so when fadeIn(j)
\* follows fadeOut(j) handled in the neutral state.
C4_FadeInRestoresOthers ==
    [][\A j \in DOMAIN groups :
          (event'.type = "mouseout" /\ event'.index = j) =>
              /\ Neutral' <=> UndimmedAt(j)
              /\ (event.type = "mouseover" /\ event.index = j /\ FocusedOn(j))
                    => Neutral']_vars

\* fadeIn(j) right after fadeOut(j) of a node with unrelated nodes
C4_Witness ==
    /\ event.type = "mouseout"
    /\ before.type = "mouseover"
    /\ before.index = event.index
    /\ \E g \in DOMAIN groups : ~Related(g, event.index)
    /\ \E c \in DOMAIN chords : ~Touches(c, event.index)
    /\ Neutral

\* C5: fadeOut(i) handled in the neutral state leaves the label of group g at
\* opacity 1 if and only if g is i or matrix[i][g] > 0 or matrix[g][i] > 0, and
\* sets every other label to 0.1; for an event on a chord, i is the index of
\* the chord's source.
C5_HighlightCompleteness ==
    [][ /\ \A i \in DOMAIN groups :
             (Neutral /\ MouseoverLabel(i)) =>
                 \A g \in DOMAIN groups :
                     labelOpacity'[g] = IF Related(groups[g].index, i)
                                        THEN FadeInOpacity ELSE FadeOutOpacity
        /\ \A c \in DOMAIN chords :
             (Neutral /\ MouseoverChord(c)) =>
                 \A g \in DOMAIN groups :
                     labelOpacity'[g] = IF Related(groups[g].index, chords[c].source.index)
                                        THEN FadeInOpacity ELSE FadeOutOpacity ]_vars

\* fadeOut on a chord whose source is node 1, in the chart of a matrix where
\* node 2 is related to node 0 but not to node 1
C5_Witness ==
    /\ event = Handled("mouseover", "chord", 1)
    /\ before.type = "chart"
    /\ DOMAIN groups = Idx(3)
    /\ Related(2, 0)
    /\ labelOpacity[0] = FadeInOpacity
    /\ labelOpacity[1] = FadeInOpacity
    /\ labelOpacity[2] = FadeOutOpacity

\* C10: after any sequence of hover events the opacity state is the neutral
\* state or the state focused on one node k, and the state right after
\* fadeOut(k) is the state focused on k whatever the state before it.
C10_TwoOpacityStates ==
    /\ Drawn => (Neutral \/ \E k \in DOMAIN groups : FocusedOn(k))
    /\ event.type = "mouseover" => FocusedOn(event.index)

\* C10, amended: fade writes only the elements unrelated to its index, so the
\* two states are kept by matched events: fadeOut(k) handled in the neutral
\* state gives the state focused on k, and fadeIn(k) handled in the state
\* focused on k gives the neutral state.  The state right after fadeOut(k) is
\* the state focused on k exactly when nothing that belongs to k was dimmed
\* before it; dimming of an earlier focus on another node is carried over.
C10_MatchedHoverStates ==
    [][\A k \in DOMAIN groups :
          /\ (event'.type = "mouseover" /\ event'.index = k /\ Neutral)
                => FocusedOn(k)'
          /\ (event'.type = "mouseout" /\ event'.index = k /\ FocusedOn(k))
                => Neutral'
          /\ (event'.type = "mouseover" /\ event'.index = k)
                => (FocusedOn(k)' <=> UndimmedAt(k)) ]_vars

\* fadeOut(0) in the neutral state of a chart where node 0 has a neighbour, an
\* unrelated node, and a chord that does not touch it
C10_Witness ==
    /\ event.type = "mouseover"
    /\ event.index = 0
    /\ before.type = "chart"
    /\ FocusedOn(0)
    /\ \E g \in DOMAIN groups : g # 0 /\ labelOpacity[g] = FadeInOpacity
    /\ \E g \in DOMAIN groups : labelOpacity[g] = FadeOutOpacity
    /\ \E c \in DOMAIN chords : chordOpacity[c] = FadeOutOpacity

----------------------------------------------------------------------------
(* The layout (SpecLayout).                                                *)

\* the chart call was the last call handled, so padding is the one it used
JustCalled == event.type = "chart"

\* C7: when padding * N >= 2*pi for an N-node matrix (here one with some
\* positive weight), the chart call fails with a LayoutError before any angle
\* is allocated, and no group with endAngle < startAngle is produced or drawn.
C7_LayoutError ==
    (JustCalled /\ Total(svgDatum.matrix) > 0
       /\ padding * Size(svgDatum.matrix) >= Tau) =>
        /\ error = "LayoutError"
        /\ \A g \in DOMAIN groups :
              groups[g].endAngle.nan \/ groups[g].startAngle.nan
              \/ groups[g].endAngle.num >= groups[g].startAngle.num

\* the chords drawn from node i to node j
ChordsFromTo(i, j) ==
    { c \in DOMAIN chords : chords[c].source.index = i /\ chords[c].target.index = j }

\* the chords drawn between nodes i and j, in either direction
ChordsBetween(i, j) == ChordsFromTo(i, j) \cup ChordsFromTo(j, i)

\* C8: the chords drawn for a matrix are exactly one directed chord per cell
\* (i, j) with matrix[i][j] > 0 and i # j, its source i and its target j: two
\* chords when (i, j) and (j, i) are both positive, none for a diagonal cell.
C8_DirectedChords ==
    (JustCalled /\ Drawn) =>
        \A i, j \in DOMAIN matrix :
            Cardinality(ChordsFromTo(i, j)) =
                IF matrix[i][j] > 0 /\ i # j THEN 1 ELSE 0

\* C8, amended: the chords drawn for a matrix are exactly one chord per pair of
\* nodes i <= j, the diagonal included, with matrix[i][j] > 0 or
\* matrix[j][i] > 0; its source is the end with the larger weight towards the
\* other, and i when the two weights are equal.  Cells (i, j) and (j, i) that
\* are both positive yield one chord, and a positive diagonal cell yields a
\* chord from the node to itself.
C8_MergedChords ==
    (JustCalled /\ Drawn) =>
        /\ \A i, j \in DOMAIN matrix :
              i <= j => Cardinality(ChordsBetween(i, j)) =
                            IF matrix[i][j] > 0 \/ matrix[j][i] > 0 THEN 1 ELSE 0
        /\ \A c \in DOMAIN chords :
              LET src == chords[c].source.index
                  tgt == chords[c].target.index
              IN  /\ matrix[src][tgt] >= matrix[tgt][src]
                  /\ matrix[src][tgt] = matrix[tgt][src] => src <= tgt

\* a chart with a chord from a node to itself, and a single chord for a pair
\* of nodes that depend on each other
C8_Witness ==
    /\ JustCalled
    /\ \E i \in DOMAIN matrix : matrix[i][i] > 0 /\ ChordsFromTo(i, i) # {}
    /\ \E i, j \in DOMAIN matrix :
          /\ i # j
          /\ matrix[i][j] > 0
          /\ matrix[j][i] > 0
          /\ Cardinality(ChordsBetween(i, j)) = 1

\* (startAngle + endAngle) / 2 of a group
MidAngle(group) == JsHalf(JsAdd(group.startAngle, group.endAngle))

----------------------------------------------------------------------------
(* A second call (Spec).                                                   *)

\* C6: after a chart call with new data on a target that was already drawn,
\* the groups, the chords, the rotation and the matrix and names the hover
\* and click handlers work with all derive from the new data.
C6_SecondCallReplaces ==
    (JustCalled /\ Drawn /\ error = "none") =>
        /\ matrix = svgDatum.matrix
        /\ packageNames = NamesOf(svgDatum)
        /\ packages = svgDatum.packages
        /\ DOMAIN groups = DOMAIN ChordGroups(svgDatum.matrix, padding)
        /\ chords = ChordChords(svgDatum.matrix)
        /\ rotation = Rotation(ChordGroups(svgDatum.matrix, padding)[0])

====
